---------------------------- MODULE Spec2Model ----------------------------
(***************************************************************************)
(* A model of scripts/merge_leads.py: the duplicate finder                 *)
(* (find_duplicates_for_lead), the merge executor (merge_lead) and the     *)
(* full-dataset walker (the __main__ loop), running against a remote lead  *)
(* store that answers paginated searches sorted by date_created and        *)
(* executes lead/merge requests.                                           *)
(*                                                                         *)
(* Strings are sequences of one-character strings, so that strip() and     *)
(* lower() are computed and not assumed.  A lead is a record               *)
(*   [id, date_created, name, contacts, opportunities]                     *)
(* and a contact is [emails, phones], each a sequence of strings.          *)
(***************************************************************************)
EXTENDS Integers, Sequences, FiniteSets, TLC

\* ------------------------------------------------------------------ bounds

\* Number of leads in the organization when the script starts.
MaxLeads == 4

\* Number of leads the store returns per search request (the store's page
\* limit; the script passes no _limit of its own).
PageLimit == 2

\* History counters and total_leads_merged saturate at this value.
MaxCount == 3

\* ------------------------------------------------------------- strings

Max(a, b) == IF a >= b THEN a ELSE b

Min(a, b) == IF a <= b THEN a ELSE b

\* One saturating increment of a counter.
Bump(c) == IF c < MaxCount THEN c + 1 ELSE c

\* str.lower() on one character.
LowerChar(c) ==
    CASE c = "A" -> "a"
      [] c = "B" -> "b"
      [] c = "X" -> "x"
      [] c = "Y" -> "y"
      [] OTHER -> c

\* str.lower(): every cased character replaced by its lowercase form.
lower(s) == [i \in 1..Len(s) |-> LowerChar(s[i])]

RECURSIVE lstrip(_)
\* Leading whitespace removed.
lstrip(s) == IF s # <<>> /\ Head(s) = " " THEN lstrip(Tail(s)) ELSE s

RECURSIVE rstrip(_)
\* Trailing whitespace removed.
rstrip(s) ==
    IF s # <<>> /\ s[Len(s)] = " " THEN rstrip(SubSeq(s, 1, Len(s) - 1)) ELSE s

\* str.strip(): leading and trailing whitespace removed.
strip(s) == rstrip(lstrip(s))

RECURSIVE Flatten(_)
\* Concatenation of a sequence of sequences.
Flatten(ss) == IF ss = <<>> THEN <<>> ELSE Head(ss) \o Flatten(Tail(ss))

\* The set of elements of a sequence.
Range(s) == {s[i] : i \in 1..Len(s)}

\* ------------------------------------------------ inputs (initial data)

Fields == {"company", "email", "phone"}

\* Company names a lead may start with: "ab", "AB " and "a b".
Names ==
    { <<"a", "b">>, <<"A", "B", " ">>, <<"a", " ", "b">> }

NoContact == <<>>

EmailContact(es) == [emails |-> es, phones |-> <<>>]

PhoneContact(ps) == [emails |-> <<>>, phones |-> ps]

\* Contact lists of a lead when emails are compared.
EmailContactLists ==
    { << EmailContact(<< <<"x">> >>) >>,
      << EmailContact(<< <<"X">> >>) >>,
      << EmailContact(<< <<"x">> >>), EmailContact(<< <<"y">> >>) >>,
      << EmailContact(<< <<"y">> >>) >> }

\* Contact lists of a lead when phones are compared.
PhoneContactLists ==
    { NoContact,
      << PhoneContact(<< <<"5">> >>) >>,
      << PhoneContact(<< <<"5">>, <<"6">> >>) >>,
      << PhoneContact(<< <<"6">> >>) >> }

LeadIds == 1..MaxLeads

\* Sets of leads that start with an opportunity: none, or any one lead.
OppChoices == {{}} \cup {{i} : i \in LeadIds}

\* The lead collections the script may be started on, for one compared
\* field: leads are numbered in creation order (date_created = id).  The
\* attributes the compared field does not read are fixed; the script never
\* reads opportunities, which are varied for company comparisons only.
InitialStores(f) ==
    LET names == IF f = "company" THEN Names ELSE { <<"c">> }
        opps == IF f = "company" THEN OppChoices ELSE {{}}
        contacts == CASE f = "company" -> { NoContact }
                      [] f = "email" -> EmailContactLists
                      [] f = "phone" -> PhoneContactLists
    IN { [i \in LeadIds |->
            [id |-> i, date_created |-> i, name |-> nm[i],
             contacts |-> cs[i],
             opportunities |-> IF i \in opp THEN 1 ELSE 0]] :
         nm \in [LeadIds -> names], cs \in [LeadIds -> contacts],
         opp \in opps }

\* ------------------------------------------------------ remote lead store

\* How the store's search compares a value of a lead with a search value:
\* ignoring letter case and whitespace (its candidates are a superset of the
\* exact matches, which the script filters).
ServerNorm(s) ==
    LET l == lower(s)
        NotSpace(c) == c # " "
    IN SelectSeq(l, NotSpace)

\* All values of one contact field ("email" or "phone") of a lead, in
\* contact order.
FieldValues(lead, comparator_field) ==
    Flatten([i \in 1..Len(lead.contacts) |->
        IF comparator_field = "email" THEN lead.contacts[i].emails
                                      ELSE lead.contacts[i].phones])

\* The store's "<field> in (v1, v2, ...)" filter on one lead.
ServerMatches(l, comparator_field, values) ==
    LET mine == IF comparator_field = "company" THEN {l.name}
                ELSE Range(FieldValues(l, comparator_field))
    IN \E m \in mine : \E v \in Range(values) : ServerNorm(m) = ServerNorm(v)

\* One page of a result list that is sorted by date_created.
Page(results, skip) ==
    [data |-> SubSeq(results, skip + 1, Min(skip + PageLimit, Len(results))),
     total_results |-> Len(results),
     has_more |-> skip + PageLimit < Len(results)]

\* api.get('lead', query 'sort:date_created', _skip): a page of all leads.
api_get_leads(s, skip) == Page(s, skip)

\* api.get('lead', query '<field> in (...) sort:date_created', _skip).
api_get_query(s, comparator_field, values, skip) ==
    LET Hit(l) == ServerMatches(l, comparator_field, values)
    IN Page(SelectSeq(s, Hit), skip)

\* The live lead with the given id (the store holds at most one).
LeadOf(s, id) == CHOOSE l \in Range(s) : l.id = id

HasLead(s, id) == \E l \in Range(s) : l.id = id

\* api.post('lead/merge'): the source lead ceases to exist and its contacts
\* and opportunities move to the destination lead.
api_post_merge(s, source, destination) ==
    IF ~HasLead(s, source) \/ ~HasLead(s, destination) \/ source = destination
    THEN s
    ELSE LET src == LeadOf(s, source)
             Keep(l) == l.id # source
             Absorb(l) ==
                 IF l.id = destination
                 THEN [l EXCEPT !.contacts = l.contacts \o src.contacts,
                                !.opportunities =
                                    l.opportunities + src.opportunities]
                 ELSE l
             rest == SelectSeq(s, Keep)
         IN [i \in 1..Len(rest) |-> Absorb(rest[i])]

\* ----------------------------------------------- find_duplicates_for_lead

\* search_values: the values the query asks for.
search_values(lead, comparator_field) ==
    IF comparator_field = "company" THEN << lead.name >>
    ELSE FieldValues(lead, comparator_field)

\* lead_elems / l_elems: a lead's data points (emails or phone numbers).
lead_elems(lead, comparator_field) == Range(FieldValues(lead, comparator_field))

\* The company test with .lower() forgotten.
company_match_cased(lead, l) == strip(lead.name) = strip(l.name)

\* The company test of the result filter.
company_match(lead, l) == lower(strip(lead.name)) = lower(strip(l.name))

\* The email/phone test requiring all of the lead's values to match.
elems_match_all(lead, l, comparator_field) ==
    /\ lead_elems(lead, comparator_field) # {}
    /\ lead_elems(lead, comparator_field)
          \subseteq lead_elems(l, comparator_field)

\* The email/phone test of the result filter.
elems_match(lead, l, comparator_field) ==
    lead_elems(lead, comparator_field) \cap lead_elems(l, comparator_field) # {}

\* The filter without the exclusion of the original lead (lines 119-121).
is_duplicate_with_self(lead, l, comparator_field) ==
    IF comparator_field = "company" THEN company_match(lead, l)
    ELSE elems_match(lead, l, comparator_field)

\* The filter on one search result l: the original lead is excluded, and the
\* others are kept iff they are exact matches.
is_duplicate(lead, l, comparator_field) ==
    /\ l.id # lead.id
    /\ IF comparator_field = "company" THEN company_match(lead, l)
       ELSE elems_match(lead, l, comparator_field)

\* A finder that stops after the first result page.
find_first_page(s, lead, comparator_field, offset, duplicates) ==
    LET resp == api_get_query(s, comparator_field,
                              search_values(lead, comparator_field), offset)
        Dup(l) == is_duplicate(lead, l, comparator_field)
    IN duplicates \o SelectSeq(resp.data, Dup)

RECURSIVE find_pages(_, _, _, _, _)
\* The while has_more loop: one query per result page, the results appended.
find_pages(s, lead, comparator_field, offset, duplicates) ==
    LET resp == api_get_query(s, comparator_field,
                              search_values(lead, comparator_field), offset)
        Dup(l) == is_duplicate(lead, l, comparator_field)
        found == duplicates \o SelectSeq(resp.data, Dup)
    IN IF resp.has_more
       THEN find_pages(s, lead, comparator_field,
                       offset + Len(resp.data), found)
       ELSE found

find_duplicates_for_lead(s, lead, comparator_field) ==
    IF search_values(lead, comparator_field) = <<>> THEN <<>>
    ELSE find_pages(s, lead, comparator_field, 0, <<>>)

\* ------------------------------------------------------------- merge_lead

\* merge_lead without its early return on the unset --confirmed flag.
merge_lead_ungated(confirmed_flag, destination_lead, duplicates) ==
    [i \in 1..Len(duplicates) |->
        [source |-> duplicates[i].id, destination |-> destination_lead.id]]

\* merge_lead walking the duplicates from the last to the first.
merge_lead_reversed(confirmed_flag, destination_lead, duplicates) ==
    IF ~confirmed_flag THEN <<>>
    ELSE [i \in 1..Len(duplicates) |->
            [source |-> duplicates[Len(duplicates) + 1 - i].id,
             destination |-> destination_lead.id]]

\* The merge requests merge_lead posts, in order.
merge_lead(confirmed_flag, destination_lead, duplicates) ==
    IF ~confirmed_flag THEN <<>>
    ELSE [i \in 1..Len(duplicates) |->
            [source |-> duplicates[i].id, destination |-> destination_lead.id]]

RECURSIVE post_all(_, _)
\* The store after the requests were executed one after another.
post_all(s, reqs) ==
    IF reqs = <<>> THEN s
    ELSE post_all(api_post_merge(s, Head(reqs).source, Head(reqs).destination),
                  Tail(reqs))

RECURSIVE observe_all(_, _, _)
\* The requests with the two leads as they are in the store when each request
\* is posted, and the number of the page being processed.
observe_all(s, reqs, page) ==
    IF reqs = <<>> THEN <<>>
    ELSE LET r == Head(reqs)
         IN << [source |-> r.source, destination |-> r.destination,
                page |-> page,
                source_present |-> HasLead(s, r.source),
                destination_present |-> HasLead(s, r.destination),
                source_lead |-> IF HasLead(s, r.source)
                                THEN LeadOf(s, r.source) ELSE <<>>,
                destination_lead |-> IF HasLead(s, r.destination)
                                     THEN LeadOf(s, r.destination) ELSE <<>>] >>
              \o observe_all(api_post_merge(s, r.source, r.destination),
                             Tail(reqs), page)

\* ------------------------------------------------------------------ state

VARIABLES
    store,                  \* the remote lead store, sorted by date_created
    field,                  \* args.field
    confirmed,              \* args.confirmed
    pc,                     \* "fetch", "process", "done" or "raised"
    has_more,               \* __main__: has_more
    offset,                 \* __main__: offset
    total_leads_merged,     \* __main__: total_leads_merged
    resp,                   \* __main__: resp (leads is resp.data)
    idx,                    \* __main__: position of the for loop (from 1)
    leads_merged_this_page, \* __main__: leads_merged_this_page
    duplicates_this_page,   \* __main__: duplicates_this_page
    store0,                 \* history: the store when the script started
    requests,               \* history: every merge request posted, observed
    page_no,                \* history: pages fetched so far (saturating)
    events,                 \* history: this page's merge events
    processed,              \* history: per lead, times passed to the finder
    skipped,                \* history: per lead, times skipped
    newest,                 \* history: latest date_created given to the finder
    reported,               \* history: (source, destination) pairs logged
    preview,                \* history: what an earlier dry run reported
    last                    \* history: the last loop iteration

vars == << store, field, confirmed, pc, has_more, offset, total_leads_merged,
           resp, idx, leads_merged_this_page, duplicates_this_page, store0,
           requests, page_no, events, processed, skipped, newest, reported,
           preview, last >>

leads == resp.data

NoResp == [data |-> <<>>, total_results |-> 0, has_more |-> FALSE]

NoLast == [kind |-> "none"]

NoPreview == [done |-> FALSE, pairs |-> {}]

\* The ids of a sequence of leads.
Ids(ls) == {ls[i].id : i \in 1..Len(ls)}

\* The (source, destination) pairs of the line logged for a lead's duplicates.
LoggedPairs(lead, duplicates) == {<<d, lead.id>> : d \in Ids(duplicates)}

\* A loop that never skips a lead.
never_seen(lead, seen) == FALSE

\* The test of line 193: the lead was already seen in a duplicates list.
already_seen(lead, seen) == lead.id \in seen

Init ==
    /\ field \in Fields
    /\ confirmed \in BOOLEAN
    /\ store \in InitialStores(field)
    /\ store0 = store
    /\ pc = "fetch"
    /\ has_more = TRUE
    /\ offset = 0
    /\ total_leads_merged = 0
    /\ resp = NoResp
    /\ idx = 1
    /\ leads_merged_this_page = 0
    /\ duplicates_this_page = {}
    /\ requests = <<>>
    /\ page_no = 0
    /\ events = <<>>
    /\ processed = [i \in LeadIds |-> 0]
    /\ skipped = [i \in LeadIds |-> 0]
    /\ newest = 0
    /\ reported = {}
    /\ preview = NoPreview
    /\ last = NoLast

\* while has_more: fetch the page at offset and reset the page's state.
FetchPage ==
    /\ pc = "fetch"
    /\ has_more
    /\ resp' = api_get_leads(store, offset)
    /\ leads_merged_this_page' = 0
    /\ duplicates_this_page' = {}
    /\ idx' = 1
    /\ pc' = "process"
    /\ page_no' = Bump(page_no)
    /\ events' = <<>>
    /\ last' = [kind |-> "fetch"]
    /\ UNCHANGED << store, field, confirmed, has_more, offset,
                    total_leads_merged, store0, requests, processed, skipped,
                    newest, reported, preview >>

\* One iteration of "for idx, lead in enumerate(leads)".
ProcessLead ==
    /\ pc = "process"
    /\ idx <= Len(leads)
    /\ LET lead == leads[idx]
       IN IF already_seen(lead, duplicates_this_page)
          THEN /\ skipped' = [skipped EXCEPT ![lead.id] = Bump(@)]
               /\ last' = [kind |-> "skip", lead |-> lead,
                           seen |-> duplicates_this_page,
                           posted |-> Len(requests),
                           finder_calls |-> processed,
                           newest |-> newest]
               /\ UNCHANGED << store, duplicates_this_page,
                               leads_merged_this_page, total_leads_merged,
                               requests, events, processed, newest,
                               reported >>
          ELSE LET duplicates == find_duplicates_for_lead(store, lead, field)
                   reqs == IF duplicates # <<>>
                           THEN merge_lead(confirmed, lead, duplicates)
                           ELSE <<>>
               IN /\ duplicates_this_page' =
                        duplicates_this_page \cup Ids(duplicates)
                  /\ store' = post_all(store, reqs)
                  /\ requests' = requests \o observe_all(store, reqs, page_no)
                  /\ leads_merged_this_page' =
                        IF duplicates # <<>>
                        THEN leads_merged_this_page + Len(duplicates) + 1
                        ELSE leads_merged_this_page
                  /\ total_leads_merged' =
                        IF duplicates # <<>> THEN Bump(total_leads_merged)
                        ELSE total_leads_merged
                  /\ events' =
                        IF duplicates # <<>>
                        THEN Append(events, [destination |-> lead.id,
                                             found |-> Len(duplicates),
                                             merged |-> Len(reqs),
                                             ids |-> Ids(duplicates)])
                        ELSE events
                  /\ processed' = [processed EXCEPT ![lead.id] = Bump(@)]
                  /\ newest' = Max(newest, lead.date_created)
                  /\ reported' = reported \cup LoggedPairs(lead, duplicates)
                  /\ last' = [kind |-> "find", lead |-> lead,
                              duplicates |-> duplicates, before |-> store,
                              seen |-> duplicates_this_page,
                              posted |-> Len(requests),
                              newest |-> newest,
                              merged_this_page |-> leads_merged_this_page,
                              total |-> total_leads_merged]
                  /\ UNCHANGED skipped
    /\ idx' = idx + 1
    /\ UNCHANGED << field, confirmed, pc, has_more, offset, resp, store0,
                    page_no, preview >>

\* An iteration that swallows the failure of the k-th request and goes on
\* as if the whole group had been merged.
MergeSwallowsFailure ==
    /\ pc = "process"
    /\ idx <= Len(leads)
    /\ ~already_seen(leads[idx], duplicates_this_page)
    /\ LET lead == leads[idx]
           duplicates == find_duplicates_for_lead(store, lead, field)
           reqs == IF duplicates # <<>>
                   THEN merge_lead(confirmed, lead, duplicates)
                   ELSE <<>>
       IN \E k \in 1..Len(reqs) :
             LET done == SubSeq(reqs, 1, k - 1)
             IN /\ duplicates_this_page' =
                      duplicates_this_page \cup Ids(duplicates)
                /\ store' = post_all(store, done)
                /\ requests' = requests \o observe_all(store, done, page_no)
                /\ processed' = [processed EXCEPT ![lead.id] = Bump(@)]
                /\ newest' = Max(newest, lead.date_created)
                /\ reported' = reported \cup LoggedPairs(lead, duplicates)
                /\ last' = [kind |-> "raise", lead |-> lead,
                            duplicates |-> duplicates, before |-> store,
                            seen |-> duplicates_this_page,
                            posted |-> Len(requests),
                            newest |-> newest,
                            merged_this_page |-> leads_merged_this_page,
                            total |-> total_leads_merged,
                            from |-> offset,
                            failed |-> reqs[k]]
    /\ idx' = idx + 1
    /\ total_leads_merged' = Bump(total_leads_merged)
    /\ leads_merged_this_page' = leads_merged_this_page + 1
    /\ UNCHANGED << field, confirmed, pc, has_more, offset, resp, store0,
                    page_no, events, skipped, preview >>

\* An iteration in which a merge request fails: api.post raises at the k-th
\* request, after the earlier ones were executed, and the exception leaves
\* merge_lead and the script (nothing catches it).
MergeRaises ==
    /\ pc = "process"
    /\ idx <= Len(leads)
    /\ ~already_seen(leads[idx], duplicates_this_page)
    /\ LET lead == leads[idx]
           duplicates == find_duplicates_for_lead(store, lead, field)
           reqs == IF duplicates # <<>>
                   THEN merge_lead(confirmed, lead, duplicates)
                   ELSE <<>>
       IN \E k \in 1..Len(reqs) :
             LET done == SubSeq(reqs, 1, k - 1)
             IN /\ duplicates_this_page' =
                      duplicates_this_page \cup Ids(duplicates)
                /\ store' = post_all(store, done)
                /\ requests' = requests \o observe_all(store, done, page_no)
                /\ processed' = [processed EXCEPT ![lead.id] = Bump(@)]
                /\ newest' = Max(newest, lead.date_created)
                /\ reported' = reported \cup LoggedPairs(lead, duplicates)
                /\ last' = [kind |-> "raise", lead |-> lead,
                            duplicates |-> duplicates, before |-> store,
                            seen |-> duplicates_this_page,
                            posted |-> Len(requests),
                            newest |-> newest,
                            merged_this_page |-> leads_merged_this_page,
                            total |-> total_leads_merged,
                            from |-> offset,
                            failed |-> reqs[k]]
    /\ pc' = "raised"
    /\ UNCHANGED << field, confirmed, has_more, offset, total_leads_merged,
                    resp, idx, leads_merged_this_page, store0, page_no,
                    events, skipped, preview >>

\* After the for loop: advance the offset and take has_more from the page.
AdvanceOffset ==
    /\ pc = "process"
    /\ idx > Len(leads)
    /\ offset' = offset + Max(0, Len(leads) - leads_merged_this_page)
    /\ has_more' = resp.has_more
    /\ pc' = "fetch"
    /\ last' = [kind |-> "advance", from |-> offset,
                page_size |-> Len(leads), events |-> events]
    /\ UNCHANGED << store, field, confirmed, total_leads_merged, resp, idx,
                    leads_merged_this_page, duplicates_this_page, store0,
                    requests, page_no, events, processed, skipped, newest,
                    reported, preview >>

\* The while loop ends when the last page reported no more pages.
Finish ==
    /\ pc = "fetch"
    /\ ~has_more
    /\ pc' = "done"
    /\ last' = [kind |-> "finish"]
    /\ UNCHANGED << store, field, confirmed, has_more, offset,
                    total_leads_merged, resp, idx, leads_merged_this_page,
                    duplicates_this_page, store0, requests, page_no, events,
                    processed, skipped, newest, reported, preview >>

Next == FetchPage \/ ProcessLead \/ MergeRaises \/ AdvanceOffset \/ Finish

Spec == Init /\ [][Next]_vars

\* A dry run has reported all it ever will: it ended, or it is about to fetch
\* again the offset it has just handled on the store it never changes.
DryRunComplete ==
    /\ ~confirmed
    /\ \/ pc = "done"
       \/ pc = "fetch" /\ has_more /\ last.kind = "advance"
             /\ last.from = offset

\* The script is run again with --confirmed on the dataset the dry run saw.
Rerun ==
    /\ DryRunComplete
    /\ ~preview.done
    /\ preview' = [done |-> TRUE, pairs |-> reported]
    /\ confirmed' = TRUE
    /\ store' = store0
    /\ pc' = "fetch"
    /\ has_more' = TRUE
    /\ offset' = 0
    /\ total_leads_merged' = 0
    /\ resp' = NoResp
    /\ idx' = 1
    /\ leads_merged_this_page' = 0
    /\ duplicates_this_page' = {}
    /\ requests' = <<>>
    /\ page_no' = 0
    /\ events' = <<>>
    /\ processed' = [i \in LeadIds |-> 0]
    /\ skipped' = [i \in LeadIds |-> 0]
    /\ newest' = 0
    /\ reported' = {}
    /\ last' = NoLast
    /\ UNCHANGED << field, store0 >>

InitDryRun == Init /\ ~confirmed

NextPreview == Next \/ Rerun

SpecPreview == InitDryRun /\ [][NextPreview]_vars

\* The steps of a dry run: merge_lead posts nothing, so no request can fail.
NextDryRun == FetchPage \/ ProcessLead \/ AdvanceOffset \/ Finish

\* A dry run under weak fairness of the loop: the script keeps running while
\* it has a step to take.
FairDryRun == InitDryRun /\ [][NextDryRun]_vars /\ WF_vars(NextDryRun)

\* ----------------------------------------------------------------- claims

\* Two live leads that the compared field makes duplicates of each other.
AreDuplicates(l, m) == l.id # m.id /\ is_duplicate(l, m, field)

\* C1: in a dry run (confirmation flag unset) no merge request is ever
\* posted, whatever the destination and the duplicate list, and the store
\* stays what it was when the run started.
C1_DryRunNoMutation ==
    ~confirmed =>
        /\ requests = <<>>
        /\ store = store0
        /\ \A l \in Range(store) : \A n \in 0..Len(store) :
              merge_lead(confirmed, l, SubSeq(store, 1, n)) = <<>>

\* C1 witness: a dry run has ended after merge_lead was called with a
\* non-empty duplicate list.
C1_Witness ==
    ~confirmed /\ pc = "done" /\ total_leads_merged > 0

\* C2: in one run every lead is passed through the per-lead loop exactly
\* once: never twice, and at the end never zero times unless it was skipped
\* as a member of the page's subsumed set (or no longer exists).
C2_VisitedExactlyOnce ==
    /\ \A i \in LeadIds : processed[i] <= 1
    /\ pc = "done" =>
          \A i \in LeadIds :
              processed[i] = 1 \/ skipped[i] >= 1 \/ ~HasLead(store, i)

\* Case-insensitive equality of two strings.
SameIgnoringCase(a, b) == lower(a) = lower(b)

\* The documented duplicate criteria: company names equal after trimming and
\* case-folding; any email equal ignoring case; any phone number equal.
DocumentedDuplicates(l, m, f) ==
    /\ l.id # m.id
    /\ CASE f = "company" -> lower(strip(l.name)) = lower(strip(m.name))
         [] f = "email" ->
               \E a \in Range(FieldValues(l, "email")) :
                   \E b \in Range(FieldValues(m, "email")) :
                       SameIgnoringCase(a, b)
         [] f = "phone" ->
               \E a \in Range(FieldValues(l, "phone")) :
                   a \in Range(FieldValues(m, "phone"))

\* C3: when a confirmed run has ended, no two leads left in the store are
\* duplicates of each other under the compared field.
C3_NoDuplicatesLeft ==
    (confirmed /\ pc = "done") =>
        \A l \in Range(store) : \A m \in Range(store) :
            ~DocumentedDuplicates(l, m, field)

\* The same with the finder's own test in place of the documented criteria
\* (they differ for emails that are equal only up to letter case).
NoFinderDuplicatesLeft ==
    (confirmed /\ pc = "done") =>
        \A l \in Range(store) : \A m \in Range(store) : ~AreDuplicates(l, m)

\* C4: in every merge request, when exactly one lead of the pair has an
\* opportunity, that lead is the destination.
C4_OpportunityLeadIsDestination ==
    \A i \in 1..Len(requests) :
        LET r == requests[i]
        IN ((r.source_lead.opportunities > 0)
                # (r.destination_lead.opportunities > 0))
           => r.destination_lead.opportunities > 0

\* C5: in every merge request the destination lead was created no later than
\* the source lead.
C5_OldestIsDestination ==
    \A i \in 1..Len(requests) :
        requests[i].destination_lead.date_created
            <= requests[i].source_lead.date_created

RECURSIVE MergedCount(_)
\* Summed over a page's merge events: the destination plus the duplicates
\* that were actually merged into it.
MergedCount(evs) ==
    IF evs = <<>> THEN 0 ELSE 1 + Head(evs).merged + MergedCount(Tail(evs))

\* C6: when a page completes the offset grows by exactly
\* max(0, page size - merged count of the page), the merged count being, per
\* merge event, the destination plus its duplicates actually merged; the
\* offset never decreases.
C6_OffsetAdvance ==
    last.kind = "advance" =>
        /\ offset = last.from
                      + Max(0, last.page_size - MergedCount(last.events))
        /\ offset >= last.from

\* C7: when one destination of a page absorbed k duplicates (k at most the
\* page size), the offset advances by page size - k: the surviving
\* destination is not subtracted.
C7_DestinationNotSubtracted ==
    (/\ last.kind = "advance"
     /\ Len(last.events) = 1
     /\ last.events[1].merged >= 1
     /\ last.events[1].merged <= last.page_size)
    => offset - last.from = last.page_size - last.events[1].merged

\* C8: two distinct leads of the store whose company names are equal after
\* trimming and case-folding are each in the other's company duplicates.
C8_CompanySymmetry ==
    field = "company" =>
        \A l \in Range(store) :
            LET found == Range(find_duplicates_for_lead(store, l, "company"))
            IN \A m \in Range(store) :
                  (l.id # m.id /\ lower(strip(l.name)) = lower(strip(m.name)))
                  => m \in found

\* C8 witness: the walker's finder returned, for a company comparison, a lead
\* whose name is written differently from the input lead's.
C8_Witness ==
    /\ field = "company"
    /\ last.kind = "find"
    /\ \E d \in Range(last.duplicates) : d.name # last.lead.name

\* The values of field f that leads l and m share, over all their contacts.
SharedValues(l, m, f) ==
    {v \in Range(FieldValues(l, f)) :
        \E i \in 1..Len(m.contacts) :
            v \in Range(IF f = "email" THEN m.contacts[i].emails
                                       ELSE m.contacts[i].phones)}

C10_EmailCaseInsensitive ==
    (field = "email" /\ last.kind = "find") =>
        \A m \in Range(last.before) :
            DocumentedDuplicates(last.lead, m, "email")
            => m \in Range(last.duplicates)

\* C12: over a whole run the leads given to the finder come in non-decreasing
\* creation-time order: the lead being processed is never older than one
\* processed before it.
C12_GlobalOrdering ==
    last.kind \in {"find", "raise"} => last.lead.date_created >= last.newest

\* The (source, destination) pairs of the merge requests issued so far.
RequestPairs == {<<requests[i].source, requests[i].destination>> :
                    i \in 1..Len(requests)}

\* C13: for the same initial dataset and field, the pairs a dry run reports
\* are the pairs of the merge requests a confirmed run issues.
C13_DryRunPreviews ==
    (preview.done /\ pc = "done") => RequestPairs = preview.pairs

\* C14: while one page is processed a lead is returned as duplicate of at
\* most one destination: the duplicate groups found on the page are disjoint.
C14_GroupsDisjoint ==
    \A i, j \in 1..Len(events) :
        i < j => events[i].ids \cap events[j].ids = {}

\* C15: with the confirmation flag set, merging a destination with a list of
\* duplicates issues exactly one request per duplicate, in list order, each
\* with source = the duplicate's id and destination = the destination's id,
\* and no other request.
C15_MergeExecution ==
    (confirmed /\ last.kind = "find") =>
        /\ Len(requests) = last.posted + Len(last.duplicates)
        /\ \A i \in 1..Len(last.duplicates) :
              /\ requests[last.posted + i].source = last.duplicates[i].id
              /\ requests[last.posted + i].destination = last.lead.id

\* C15 (witness): a confirmed merge of one destination with two duplicates
\* has issued its two requests.
C15_Witness ==
    /\ confirmed
    /\ last.kind = "find"
    /\ Len(last.duplicates) >= 2
    /\ Len(requests) = last.posted + Len(last.duplicates)

\* C16: a lead whose id was returned by the finder for a lead processed
\* earlier on the same page is skipped: it is not given to the finder, posts
\* nothing and is no merge destination on that page; a lead not in that set is
\* always given to the finder, and every id the finder returns joins the set.
C16_PageScopedSkip ==
    /\ last.kind \in {"skip", "find", "raise"} =>
          (last.kind = "skip" <=> last.lead.id \in last.seen)
    /\ last.kind = "skip" =>
          /\ processed = last.finder_calls
          /\ Len(requests) = last.posted
          /\ duplicates_this_page = last.seen
    /\ last.kind \in {"find", "raise"} =>
          duplicates_this_page = last.seen \cup Ids(last.duplicates)
    /\ \A i, j \in 1..Len(events) :
          i < j => events[j].destination \notin events[i].ids

\* C16 (witness): the page loop has just skipped a lead that the finder had
\* returned for an earlier lead of the page.
C16_Witness ==
    /\ last.kind = "skip"
    /\ \E i \in 1..Len(events) : last.lead.id \in events[i].ids

\* The leads of store s that the search for lead returns, on whatever result
\* page, and that are exact matches of lead.
MatchesIn(s, lead) ==
    {l \in Range(s) :
        /\ ServerMatches(l, field, search_values(lead, field))
        /\ is_duplicate(lead, l, field)}

\* C17: on an unchanged store the finder returns every matching lead other
\* than the input lead exactly once, whatever the number of result pages, in
\* creation-time ascending order.
C17_FinderPagination ==
    last.kind \in {"find", "raise"} =>
        LET dups == last.duplicates
        IN /\ Ids(dups) = {l.id : l \in MatchesIn(last.before, last.lead)}
           /\ Range(dups) \subseteq Range(last.before)
           /\ last.lead.id \notin Ids(dups)
           /\ \A i, j \in 1..Len(dups) :
                 i < j => /\ dups[i].id # dups[j].id
                          /\ dups[i].date_created <= dups[j].date_created

\* C17 (witness): the finder has returned matches from beyond the first result
\* page of its search.
C17_Witness ==
    /\ last.kind = "find"
    /\ Len(last.duplicates) > PageLimit

\* C18: when a merge request fails in a confirmed run the failure leaves the
\* script (it is not swallowed), the request is not posted again, and the
\* failed pair is not counted as merged: the source is still in the store, and
\* the merge counters, the page's merge events and the offset are what they
\* were before the lead was handled.
C18_MergeFailureSurfaced ==
    last.kind = "raise" =>
        LET n == Len(requests) - last.posted
        IN /\ pc = "raised"
           /\ confirmed
           /\ n < Len(last.duplicates)
           /\ last.failed = [source |-> last.duplicates[n + 1].id,
                             destination |-> last.lead.id]
           /\ \A i \in 1..n :
                 /\ requests[last.posted + i].source = last.duplicates[i].id
                 /\ requests[last.posted + i].source # last.failed.source
           /\ HasLead(store, last.failed.source)
           /\ total_leads_merged = last.total
           /\ leads_merged_this_page = last.merged_this_page
           /\ offset = last.from
           /\ \A i \in 1..Len(events) : events[i].destination # last.lead.id

\* C18 (witness): the second merge request of a group has failed after the
\* first one was executed.
C18_Witness ==
    /\ last.kind = "raise"
    /\ pc = "raised"
    /\ Len(requests) = last.posted + 1

\* C19: on a finite store that nothing else changes the walker eventually
\* ends, in dry-run and in confirmed mode: it does not fetch pages forever.
C19_WalkerTerminates == <>(pc \in {"done", "raised"})

\* C20: every merge request of a confirmed run names two distinct leads that
\* are both in the store when the request is posted, and the run never issues
\* both A -> B and B -> A.
C20_MergeRequestsSound ==
    \A i \in 1..Len(requests) :
        /\ requests[i].source # requests[i].destination
        /\ requests[i].source_present
        /\ requests[i].destination_present
        /\ \A j \in 1..Len(requests) :
              ~ /\ requests[j].source = requests[i].destination
                /\ requests[j].destination = requests[i].source

\* C20 (witness): a lead that was the destination of a merge request is the
\* source of a later request of the same run.
C20_Witness ==
    \E i, j \in 1..Len(requests) :
        /\ i < j
        /\ requests[j].source = requests[i].destination

=============================================================================
